---- MODULE Spec2Model ----
(***************************************************************************)
(* conip: the generator terms() of the de Bruijn sequence B(256, 4) and    *)
(* the sink in main() that renders its terms through a bufio.Writer.       *)
(* Strings are sequences of bytes; '.' is 46, newline is 10, '0' is 48.    *)
(***************************************************************************)
EXTENDS Integers, Sequences, FiniteSets, TLC

\* The maximal symbol, 0xff in the source, scaled down.
MaxSym == 2
\* The largest value of the -buf flag that is tried.
MaxBuf == 2
\* The number of terms the arbitrary producer of TextSpec sends.
MaxFeed == 2
\* make(chan byte, 4)
ChanCap == 4

\* The number of values of the scaled byte type.
K == MaxSym + 1

\* byte arithmetic: x++ on a byte wraps around.
Inc(x) == (x + 1) % K

VARIABLES
  bin, nl, buf, o,   \* the flags of main
  pcm,               \* the position of main
  fatal,             \* the value main panicked with, "nil" while it has not
  pct,               \* the position of the goroutine terms, "idle" before go
  u,                 \* the working word of terms
  ch, closed,        \* the channel: its buffered elements, and whether closed
  w,                 \* the bufio.Writer: [buf: the bytes buffered, err]
  out,               \* the bytes written to the destination
  sent,              \* every term terms has sent, in order
  rcvd,              \* every term main has received, in order
  logged             \* the log.Println calls: <<u[0], number of terms sent>>

vars == <<bin, nl, buf, o, pcm, fatal, pct, u, ch, closed, w, out, sent, rcvd, logged>>

genvars == <<pct, u, ch, closed, sent, logged>>
flagvars == <<bin, nl, buf, o>>

encd ==
  <<
    <<46,48>>, <<46,49>>, <<46,50>>, <<46,51>>, <<46,52>>, <<46,53>>, <<46,54>>, <<46,55>>, <<46,56>>, <<46,57>>, <<46,49,48>>, <<46,49,49>>, <<46,49,50>>, <<46,49,51>>, <<46,49,52>>, <<46,49,53>>,
    <<46,49,54>>, <<46,49,55>>, <<46,49,56>>, <<46,49,57>>, <<46,50,48>>, <<46,50,49>>, <<46,50,50>>, <<46,50,51>>, <<46,50,52>>, <<46,50,53>>, <<46,50,54>>, <<46,50,55>>, <<46,50,56>>, <<46,50,57>>, <<46,51,48>>, <<46,51,49>>,
    <<46,51,50>>, <<46,51,51>>, <<46,51,52>>, <<46,51,53>>, <<46,51,54>>, <<46,51,55>>, <<46,51,56>>, <<46,51,57>>, <<46,52,48>>, <<46,52,49>>, <<46,52,50>>, <<46,52,51>>, <<46,52,52>>, <<46,52,53>>, <<46,52,54>>, <<46,52,55>>,
    <<46,52,56>>, <<46,52,57>>, <<46,53,48>>, <<46,53,49>>, <<46,53,50>>, <<46,53,51>>, <<46,53,52>>, <<46,53,53>>, <<46,53,54>>, <<46,53,55>>, <<46,53,56>>, <<46,53,57>>, <<46,54,48>>, <<46,54,49>>, <<46,54,50>>, <<46,54,51>>,
    <<46,54,52>>, <<46,54,53>>, <<46,54,54>>, <<46,54,55>>, <<46,54,56>>, <<46,54,57>>, <<46,55,48>>, <<46,55,49>>, <<46,55,50>>, <<46,55,51>>, <<46,55,52>>, <<46,55,53>>, <<46,55,54>>, <<46,55,55>>, <<46,55,56>>, <<46,55,57>>,
    <<46,56,48>>, <<46,56,49>>, <<46,56,50>>, <<46,56,51>>, <<46,56,52>>, <<46,56,53>>, <<46,56,54>>, <<46,56,55>>, <<46,56,56>>, <<46,56,57>>, <<46,57,48>>, <<46,57,49>>, <<46,57,50>>, <<46,57,51>>, <<46,57,52>>, <<46,57,53>>,
    <<46,57,54>>, <<46,57,55>>, <<46,57,56>>, <<46,57,57>>, <<46,49,48,48>>, <<46,49,48,49>>, <<46,49,48,50>>, <<46,49,48,51>>, <<46,49,48,52>>, <<46,49,48,53>>, <<46,49,48,54>>, <<46,49,48,55>>, <<46,49,48,56>>, <<46,49,48,57>>, <<46,49,49,48>>, <<46,49,49,49>>,
    <<46,49,49,50>>, <<46,49,49,51>>, <<46,49,49,52>>, <<46,49,49,53>>, <<46,49,49,54>>, <<46,49,49,55>>, <<46,49,49,56>>, <<46,49,49,57>>, <<46,49,50,48>>, <<46,49,50,49>>, <<46,49,50,50>>, <<46,49,50,51>>, <<46,49,50,52>>, <<46,49,50,53>>, <<46,49,50,54>>, <<46,49,50,55>>,
    <<46,49,50,56>>, <<46,49,50,57>>, <<46,49,51,48>>, <<46,49,51,49>>, <<46,49,51,50>>, <<46,49,51,51>>, <<46,49,51,52>>, <<46,49,51,53>>, <<46,49,51,54>>, <<46,49,51,55>>, <<46,49,51,56>>, <<46,49,51,57>>, <<46,49,52,48>>, <<46,49,52,49>>, <<46,49,52,50>>, <<46,49,52,51>>,
    <<46,49,52,52>>, <<46,49,52,53>>, <<46,49,52,54>>, <<46,49,52,55>>, <<46,49,52,56>>, <<46,49,52,57>>, <<46,49,53,48>>, <<46,49,53,49>>, <<46,49,53,50>>, <<46,49,53,51>>, <<46,49,53,52>>, <<46,49,53,53>>, <<46,49,53,54>>, <<46,49,53,55>>, <<46,49,53,56>>, <<46,49,53,57>>,
    <<46,49,54,48>>, <<46,49,54,49>>, <<46,49,54,50>>, <<46,49,54,51>>, <<46,49,54,52>>, <<46,49,54,53>>, <<46,49,54,54>>, <<46,49,54,55>>, <<46,49,54,56>>, <<46,49,54,57>>, <<46,49,55,48>>, <<46,49,55,49>>, <<46,49,55,50>>, <<46,49,55,51>>, <<46,49,55,52>>, <<46,49,55,53>>,
    <<46,49,55,54>>, <<46,49,55,55>>, <<46,49,55,56>>, <<46,49,55,57>>, <<46,49,56,48>>, <<46,49,56,49>>, <<46,49,56,50>>, <<46,49,56,51>>, <<46,49,56,52>>, <<46,49,56,53>>, <<46,49,56,54>>, <<46,49,56,55>>, <<46,49,56,56>>, <<46,49,56,57>>, <<46,49,57,48>>, <<46,49,57,49>>,
    <<46,49,57,50>>, <<46,49,57,51>>, <<46,49,57,52>>, <<46,49,57,53>>, <<46,49,57,54>>, <<46,49,57,55>>, <<46,49,57,56>>, <<46,49,57,57>>, <<46,50,48,48>>, <<46,50,48,49>>, <<46,50,48,50>>, <<46,50,48,51>>, <<46,50,48,52>>, <<46,50,48,53>>, <<46,50,48,54>>, <<46,50,48,55>>,
    <<46,50,48,56>>, <<46,50,48,57>>, <<46,50,49,48>>, <<46,50,49,49>>, <<46,50,49,50>>, <<46,50,49,51>>, <<46,50,49,52>>, <<46,50,49,53>>, <<46,50,49,54>>, <<46,50,49,55>>, <<46,50,49,56>>, <<46,50,49,57>>, <<46,50,50,48>>, <<46,50,50,49>>, <<46,50,50,50>>, <<46,50,50,51>>,
    <<46,50,50,52>>, <<46,50,50,53>>, <<46,50,50,54>>, <<46,50,50,55>>, <<46,50,50,56>>, <<46,50,50,57>>, <<46,50,51,48>>, <<46,50,51,49>>, <<46,50,51,50>>, <<46,50,51,51>>, <<46,50,51,52>>, <<46,50,51,53>>, <<46,50,51,54>>, <<46,50,51,55>>, <<46,50,51,56>>, <<46,50,51,57>>,
    <<46,50,52,48>>, <<46,50,52,49>>, <<46,50,52,50>>, <<46,50,52,51>>, <<46,50,52,52>>, <<46,50,52,53>>, <<46,50,52,54>>, <<46,50,52,55>>, <<46,50,52,56>>, <<46,50,52,57>>, <<46,50,53,48>>, <<46,50,53,49>>, <<46,50,53,50>>, <<46,50,53,51>>, <<46,50,53,52>>, <<46,50,53,53>>
  >>

encn ==
  <<
    <<10,48>>, <<10,49>>, <<10,50>>, <<10,51>>, <<10,52>>, <<10,53>>, <<10,54>>, <<10,55>>, <<10,56>>, <<10,57>>, <<10,49,48>>, <<10,49,49>>, <<10,49,50>>, <<10,49,51>>, <<10,49,52>>, <<10,49,53>>,
    <<10,49,54>>, <<10,49,55>>, <<10,49,56>>, <<10,49,57>>, <<10,50,48>>, <<10,50,49>>, <<10,50,50>>, <<10,50,51>>, <<10,50,52>>, <<10,50,53>>, <<10,50,54>>, <<10,50,55>>, <<10,50,56>>, <<10,50,57>>, <<10,51,48>>, <<10,51,49>>,
    <<10,51,50>>, <<10,51,51>>, <<10,51,52>>, <<10,51,53>>, <<10,51,54>>, <<10,51,55>>, <<10,51,56>>, <<10,51,57>>, <<10,52,48>>, <<10,52,49>>, <<10,52,50>>, <<10,52,51>>, <<10,52,52>>, <<10,52,53>>, <<10,52,54>>, <<10,52,55>>,
    <<10,52,56>>, <<10,52,57>>, <<10,53,48>>, <<10,53,49>>, <<10,53,50>>, <<10,53,51>>, <<10,53,52>>, <<10,53,53>>, <<10,53,54>>, <<10,53,55>>, <<10,53,56>>, <<10,53,57>>, <<10,54,48>>, <<10,54,49>>, <<10,54,50>>, <<10,54,51>>,
    <<10,54,52>>, <<10,54,53>>, <<10,54,54>>, <<10,54,55>>, <<10,54,56>>, <<10,54,57>>, <<10,55,48>>, <<10,55,49>>, <<10,55,50>>, <<10,55,51>>, <<10,55,52>>, <<10,55,53>>, <<10,55,54>>, <<10,55,55>>, <<10,55,56>>, <<10,55,57>>,
    <<10,56,48>>, <<10,56,49>>, <<10,56,50>>, <<10,56,51>>, <<10,56,52>>, <<10,56,53>>, <<10,56,54>>, <<10,56,55>>, <<10,56,56>>, <<10,56,57>>, <<10,57,48>>, <<10,57,49>>, <<10,57,50>>, <<10,57,51>>, <<10,57,52>>, <<10,57,53>>,
    <<10,57,54>>, <<10,57,55>>, <<10,57,56>>, <<10,57,57>>, <<10,49,48,48>>, <<10,49,48,49>>, <<10,49,48,50>>, <<10,49,48,51>>, <<10,49,48,52>>, <<10,49,48,53>>, <<10,49,48,54>>, <<10,49,48,55>>, <<10,49,48,56>>, <<10,49,48,57>>, <<10,49,49,48>>, <<10,49,49,49>>,
    <<10,49,49,50>>, <<10,49,49,51>>, <<10,49,49,52>>, <<10,49,49,53>>, <<10,49,49,54>>, <<10,49,49,55>>, <<10,49,49,56>>, <<10,49,49,57>>, <<10,49,50,48>>, <<10,49,50,49>>, <<10,49,50,50>>, <<10,49,50,51>>, <<10,49,50,52>>, <<10,49,50,53>>, <<10,49,50,54>>, <<10,49,50,55>>,
    <<10,49,50,56>>, <<10,49,50,57>>, <<10,49,51,48>>, <<10,49,51,49>>, <<10,49,51,50>>, <<10,49,51,51>>, <<10,49,51,52>>, <<10,49,51,53>>, <<10,49,51,54>>, <<10,49,51,55>>, <<10,49,51,56>>, <<10,49,51,57>>, <<10,49,52,48>>, <<10,49,52,49>>, <<10,49,52,50>>, <<10,49,52,51>>,
    <<10,49,52,52>>, <<10,49,52,53>>, <<10,49,52,54>>, <<10,49,52,55>>, <<10,49,52,56>>, <<10,49,52,57>>, <<10,49,53,48>>, <<10,49,53,49>>, <<10,49,53,50>>, <<10,49,53,51>>, <<10,49,53,52>>, <<10,49,53,53>>, <<10,49,53,54>>, <<10,49,53,55>>, <<10,49,53,56>>, <<10,49,53,57>>,
    <<10,49,54,48>>, <<10,49,54,49>>, <<10,49,54,50>>, <<10,49,54,51>>, <<10,49,54,52>>, <<10,49,54,53>>, <<10,49,54,54>>, <<10,49,54,55>>, <<10,49,54,56>>, <<10,49,54,57>>, <<10,49,55,48>>, <<10,49,55,49>>, <<10,49,55,50>>, <<10,49,55,51>>, <<10,49,55,52>>, <<10,49,55,53>>,
    <<10,49,55,54>>, <<10,49,55,55>>, <<10,49,55,56>>, <<10,49,55,57>>, <<10,49,56,48>>, <<10,49,56,49>>, <<10,49,56,50>>, <<10,49,56,51>>, <<10,49,56,52>>, <<10,49,56,53>>, <<10,49,56,54>>, <<10,49,56,55>>, <<10,49,56,56>>, <<10,49,56,57>>, <<10,49,57,48>>, <<10,49,57,49>>,
    <<10,49,57,50>>, <<10,49,57,51>>, <<10,49,57,52>>, <<10,49,57,53>>, <<10,49,57,54>>, <<10,49,57,55>>, <<10,49,57,56>>, <<10,49,57,57>>, <<10,50,48,48>>, <<10,50,48,49>>, <<10,50,48,50>>, <<10,50,48,51>>, <<10,50,48,52>>, <<10,50,48,53>>, <<10,50,48,54>>, <<10,50,48,55>>,
    <<10,50,48,56>>, <<10,50,48,57>>, <<10,50,49,48>>, <<10,50,49,49>>, <<10,50,49,50>>, <<10,50,49,51>>, <<10,50,49,52>>, <<10,50,49,53>>, <<10,50,49,54>>, <<10,50,49,55>>, <<10,50,49,56>>, <<10,50,49,57>>, <<10,50,50,48>>, <<10,50,50,49>>, <<10,50,50,50>>, <<10,50,50,51>>,
    <<10,50,50,52>>, <<10,50,50,53>>, <<10,50,50,54>>, <<10,50,50,55>>, <<10,50,50,56>>, <<10,50,50,57>>, <<10,50,51,48>>, <<10,50,51,49>>, <<10,50,51,50>>, <<10,50,51,51>>, <<10,50,51,52>>, <<10,50,51,53>>, <<10,50,51,54>>, <<10,50,51,55>>, <<10,50,51,56>>, <<10,50,51,57>>,
    <<10,50,52,48>>, <<10,50,52,49>>, <<10,50,52,50>>, <<10,50,52,51>>, <<10,50,52,52>>, <<10,50,52,53>>, <<10,50,52,54>>, <<10,50,52,55>>, <<10,50,52,56>>, <<10,50,52,57>>, <<10,50,53,48>>, <<10,50,53,49>>, <<10,50,53,50>>, <<10,50,53,51>>, <<10,50,53,52>>, <<10,50,53,53>>
  >>

(***************************************************************************)
(* The goroutine terms.                                                    *)
(***************************************************************************)

\* The process is alive: main has neither returned nor panicked.
Running == pcm \notin {"exit", "panic"}

\* Send with the new element put in front of the buffered ones.
SendLifo(v) ==
  /\ Len(ch) < ChanCap
  /\ ch' = <<v>> \o ch
  /\ sent' = Append(sent, v)

\* Send that does not wait for room in the buffer.
SendUnbounded(v) ==
  /\ ch' = Append(ch, v)
  /\ sent' = Append(sent, v)

\* ch <- v: blocks while the channel's buffer is full.
Send(v) ==
  /\ Len(ch) < ChanCap
  /\ ch' = Append(ch, v)
  /\ sent' = Append(sent, v)

\* One send statement of terms at position here, continuing at there.
SendAt(here, v, there) ==
  /\ Running
  /\ pct = here
  /\ Send(v)
  /\ pct' = there
  /\ UNCHANGED <<u, closed, logged>>
  /\ UNCHANGED <<flagvars, pcm, fatal, w, out, rcvd>>

\* A step of terms that only computes.
Compute(here, there, unew, lognew) ==
  /\ Running
  /\ pct = here
  /\ u' = unew
  /\ logged' = lognew
  /\ pct' = there
  /\ UNCHANGED <<ch, closed, sent>>
  /\ UNCHANGED <<flagvars, pcm, fatal, w, out, rcvd>>

\* Line 40 sending the first nonzero symbol.
Send40One == SendAt("l40", 1, "l42")

\* line 40
Send40 == SendAt("l40", 0, "l42")

\* line 42, the loop condition is false
LoopExit ==
  /\ u[0] = MaxSym
  /\ Compute("l42", "l77", u, logged)

\* lines 42-53: the 1-element Lyndon word
OneElement ==
  /\ u[0] # MaxSym /\ u[3] = MaxSym /\ u[2] = MaxSym /\ u[1] = MaxSym
  /\ Compute("l42", "l54", [i \in 0..3 |-> Inc(u[0])],
             Append(logged, <<u[0], Len(sent)>>))

Send54 == SendAt("l54", u[0], "l42")

\* The 2-element branch with a progress report of its own.
TwoElementLogged ==
  /\ u[0] # MaxSym /\ u[3] = MaxSym /\ u[2] = MaxSym /\ u[1] # MaxSym
  /\ Compute("l42", "l60",
             [u EXCEPT ![1] = Inc(u[1]), ![2] = u[0], ![3] = Inc(u[1])],
             Append(logged, <<u[0], Len(sent)>>))

\* The 2-element branch without line 59.
TwoElementNoPad ==
  /\ u[0] # MaxSym /\ u[3] = MaxSym /\ u[2] = MaxSym /\ u[1] # MaxSym
  /\ Compute("l42", "l60", [u EXCEPT ![1] = Inc(u[1])], logged)

\* lines 42-59: the 2-element Lyndon word
TwoElement ==
  /\ u[0] # MaxSym /\ u[3] = MaxSym /\ u[2] = MaxSym /\ u[1] # MaxSym
  /\ Compute("l42", "l60",
             [u EXCEPT ![1] = Inc(u[1]), ![2] = u[0], ![3] = Inc(u[1])],
             logged)

Send60 == SendAt("l60", u[0], "l61")
Send61 == SendAt("l61", u[1], "l42")

\* The skip without line 66.
SkipThreeNoReset ==
  /\ u[0] # MaxSym /\ u[3] = MaxSym /\ u[2] # MaxSym
  /\ Compute("l42", "l69", [u EXCEPT ![2] = Inc(u[2])], logged)

\* lines 42-67: the would-be 3-element word is skipped
SkipThree ==
  /\ u[0] # MaxSym /\ u[3] = MaxSym /\ u[2] # MaxSym
  /\ Compute("l42", "l69", [u EXCEPT ![2] = Inc(u[2]), ![3] = u[0]], logged)

\* line 69, reached from line 43 when u[3] is not maximal
FourElementDirect ==
  /\ u[0] # MaxSym /\ u[3] # MaxSym
  /\ Compute("l42", "l70", [u EXCEPT ![3] = Inc(u[3])], logged)

\* Line 69 not run after lines 65-66.
FourElementAfterSkipNoInc == Compute("l69", "l70", u, logged)

\* line 69, reached by falling through from line 66
FourElementAfterSkip ==
  Compute("l69", "l70", [u EXCEPT ![3] = Inc(u[3])], logged)

\* Line 73 sending u[2] a second time.
Send73Twice == SendAt("l73", u[2], "l42")

\* lines 70-73
Send70 == SendAt("l70", u[0], "l71")
Send71 == SendAt("l71", u[1], "l72")
Send72 == SendAt("l72", u[2], "l73")
Send73 == SendAt("l73", u[3], "l42")

\* Line 78 sending u[0].
Send78Word == SendAt("l78", u[0], "l79")

\* Line 79 left out.
Send79Missing == Compute("l79", "l80", u, logged)

\* lines 77-79
Send77 == SendAt("l77", 0, "l78")
Send78 == SendAt("l78", 0, "l79")
Send79 == SendAt("l79", 0, "l80")

\* terms returning without close(ch).
ReturnWithoutClose ==
  /\ Running
  /\ pct = "l80"
  /\ pct' = "done"
  /\ UNCHANGED <<u, ch, closed, sent, logged>>
  /\ UNCHANGED <<flagvars, pcm, fatal, w, out, rcvd>>

\* line 80
Close80 ==
  /\ Running
  /\ pct = "l80"
  /\ closed' = TRUE
  /\ pct' = "done"
  /\ UNCHANGED <<u, ch, sent, logged>>
  /\ UNCHANGED <<flagvars, pcm, fatal, w, out, rcvd>>

terms ==
  \/ Send40 \/ LoopExit
  \/ OneElement \/ Send54
  \/ TwoElement \/ Send60 \/ Send61
  \/ SkipThree \/ FourElementDirect \/ FourElementAfterSkip
  \/ Send70 \/ Send71 \/ Send72 \/ Send73
  \/ Send77 \/ Send78 \/ Send79 \/ Close80

(***************************************************************************)
(* The bufio.Writer w over the destination out.  A writer state is         *)
(* [buf: the buffered bytes, err: the sticky error, out: the destination]. *)
(***************************************************************************)

Min(a, b) == IF a < b THEN a ELSE b

\* out.Write(p): every byte is written, or an error after the first n.
FileWrite(p) ==
  {[n |-> Len(p), err |-> "nil"]} \cup {[n |-> j, err |-> "EIO"] : j \in 0..(Len(p) - 1)}

\* bufio.NewWriterSize: a size that is not positive selects the default.
BufSize(b) == IF b <= 0 THEN 4096 ELSE b

\* w.Flush()
Flush(st) ==
  IF st.err # "nil" \/ st.buf = <<>>
  THEN {st}
  ELSE {[buf |-> SubSeq(st.buf, r.n + 1, Len(st.buf)),
         err |-> r.err,
         out |-> st.out \o SubSeq(st.buf, 1, r.n)] : r \in FileWrite(st.buf)}

\* WriteByte losing the byte when it has to flush first.
WriteByteDropOnFlush(st, c, size) ==
  IF st.err # "nil" THEN {st}
  ELSE IF size - Len(st.buf) <= 0 THEN Flush(st)
  ELSE {[st EXCEPT !.buf = Append(@, c)]}

\* w.WriteByte(c)
WriteByte(st, c, size) ==
  IF st.err # "nil" THEN {st}
  ELSE IF size - Len(st.buf) <= 0
  THEN {IF f.err # "nil" THEN f ELSE [f EXCEPT !.buf = Append(@, c)] : f \in Flush(st)}
  ELSE {[st EXCEPT !.buf = Append(@, c)]}

\* w.WriteString(s): while s does not fit, either fill the buffer and flush
\* it, or (empty buffer, destination with a WriteString method, as *os.File
\* has, in the library versions that look for it) hand s to the destination.
RECURSIVE WriteString(_, _, _)
WriteString(st, s, size) ==
  IF Len(s) > size - Len(st.buf) /\ st.err = "nil"
  THEN LET n == Min(size - Len(st.buf), Len(s))
           copied == [st EXCEPT !.buf = @ \o SubSeq(s, 1, n)]
           viaBuffer ==
             UNION {WriteString(f, SubSeq(s, n + 1, Len(s)), size) : f \in Flush(copied)}
           direct ==
             IF st.buf = <<>>
             THEN UNION {WriteString([st EXCEPT !.err = r.err,
                                                !.out = @ \o SubSeq(s, 1, r.n)],
                                     SubSeq(s, r.n + 1, Len(s)), size) : r \in FileWrite(s)}
             ELSE {}
       IN viaBuffer \cup direct
  ELSE IF st.err # "nil" THEN {st}
  ELSE {[st EXCEPT !.buf = @ \o s]}

(***************************************************************************)
(* main.                                                                   *)
(***************************************************************************)

\* The writer state main holds.
Writer == [buf |-> w.buf, err |-> w.err, out |-> out]

\* lines 112-115, and the indexing encs[term]
encs(term) == IF nl THEN encn[term + 1] ELSE encd[term + 1]

\* A write statement whose error is dropped.
WrittenUnchecked(r, there) ==
  /\ w' = [buf |-> r.buf, err |-> r.err]
  /\ out' = r.out
  /\ pcm' = there
  /\ fatal' = fatal

\* The end of a write statement of main: panic(err) when the write failed.
Written(r, there) ==
  /\ w' = [buf |-> r.buf, err |-> r.err]
  /\ out' = r.out
  /\ pcm' = IF r.err # "nil" THEN "panic" ELSE there
  /\ fatal' = r.err

\* lines 94-95: the destination is os.Stdout
OpenStdout ==
  /\ pcm = "l94"
  /\ o = ""
  /\ pcm' = "l102"
  /\ UNCHANGED <<flagvars, fatal, genvars, w, out, rcvd>>

\* lines 95-97: os.Create succeeds
CreateOk ==
  /\ pcm = "l94"
  /\ o # ""
  /\ out' = <<>>
  /\ pcm' = "l102"
  /\ UNCHANGED <<flagvars, fatal, genvars, w, rcvd>>

\* os.Create failing after the goroutine was started.
CreateFailStarted ==
  /\ pcm = "l94"
  /\ o # ""
  /\ pcm' = "panic"
  /\ fatal' = "ENOENT"
  /\ pct' = "l40"
  /\ UNCHANGED <<flagvars, u, ch, closed, sent, logged, w, out, rcvd>>

\* lines 95-100: os.Create fails
CreateFail ==
  /\ pcm = "l94"
  /\ o # ""
  /\ pcm' = "panic"
  /\ fatal' = "ENOENT"
  /\ UNCHANGED <<flagvars, genvars, w, out, rcvd>>

\* lines 102-105 (111): the writer, the channel, the goroutine
Start ==
  /\ pcm = "l102"
  /\ w' = [buf |-> <<>>, err |-> "nil"]
  /\ ch' = <<>>
  /\ closed' = FALSE
  /\ pct' = "l40"
  /\ pcm' = IF bin THEN "l106" ELSE "l117"
  /\ UNCHANGED <<flagvars, fatal, u, sent, logged, out, rcvd>>

\* The binary loop writing the term's text.
BinWriteText ==
  /\ pcm = "l106"
  /\ ch # <<>>
  /\ ch' = Tail(ch)
  /\ rcvd' = Append(rcvd, Head(ch))
  /\ \E r \in WriteString(Writer, encs(Head(ch)), BufSize(buf)) : Written(r, "l106")
  /\ UNCHANGED <<flagvars, pct, u, closed, sent, logged>>

\* lines 106-110: one iteration of the binary loop
BinWrite ==
  /\ pcm = "l106"
  /\ ch # <<>>
  /\ ch' = Tail(ch)
  /\ rcvd' = Append(rcvd, Head(ch))
  /\ \E r \in WriteByte(Writer, Head(ch), BufSize(buf)) : Written(r, "l106")
  /\ UNCHANGED <<flagvars, pct, u, closed, sent, logged>>

\* line 106: the channel is closed and empty
BinRangeEnd ==
  /\ pcm = "l106"
  /\ ch = <<>> /\ closed
  /\ pcm' = "l127"
  /\ UNCHANGED <<flagvars, fatal, genvars, w, out, rcvd>>

\* The first term written with its separator.
TextFirstWithSeparator ==
  /\ pcm = "l117"
  /\ ch # <<>> \/ closed
  /\ LET term == IF ch # <<>> THEN Head(ch) ELSE 0
     IN /\ ch' = IF ch # <<>> THEN Tail(ch) ELSE ch
        /\ rcvd' = IF ch # <<>> THEN Append(rcvd, term) ELSE rcvd
        /\ \E r \in WriteString(Writer, encs(term), BufSize(buf)) : Written(r, "l120")
  /\ UNCHANGED <<flagvars, pct, u, closed, sent, logged>>

\* lines 117-119: the first term, without its separator.  A receive from a
\* closed and empty channel yields the zero value.
TextFirst ==
  /\ pcm = "l117"
  /\ ch # <<>> \/ closed
  /\ LET term == IF ch # <<>> THEN Head(ch) ELSE 0
     IN /\ ch' = IF ch # <<>> THEN Tail(ch) ELSE ch
        /\ rcvd' = IF ch # <<>> THEN Append(rcvd, term) ELSE rcvd
        /\ \E r \in WriteString(Writer, Tail(encs(term)), BufSize(buf)) : Written(r, "l120")
  /\ UNCHANGED <<flagvars, pct, u, closed, sent, logged>>

\* lines 120-124: one iteration of the text loop
TextWrite ==
  /\ pcm = "l120"
  /\ ch # <<>>
  /\ ch' = Tail(ch)
  /\ rcvd' = Append(rcvd, Head(ch))
  /\ \E r \in WriteString(Writer, encs(Head(ch)), BufSize(buf)) : Written(r, "l120")
  /\ UNCHANGED <<flagvars, pct, u, closed, sent, logged>>

\* The text loop left at the close with terms still buffered.
TextRangeEndEarly ==
  /\ pcm = "l120"
  /\ closed
  /\ pcm' = "l127"
  /\ UNCHANGED <<flagvars, fatal, genvars, w, out, rcvd>>

\* line 120: the channel is closed and empty
TextRangeEnd ==
  /\ pcm = "l120"
  /\ ch = <<>> /\ closed
  /\ pcm' = "l127"
  /\ UNCHANGED <<flagvars, fatal, genvars, w, out, rcvd>>

\* main returning without the final flush.
ReturnWithoutFlush ==
  /\ pcm = "l127"
  /\ pcm' = "exit"
  /\ UNCHANGED <<flagvars, fatal, genvars, w, out, rcvd>>

\* lines 127-130: the final flush, then main returns
FinalFlush ==
  /\ pcm = "l127"
  /\ \E r \in Flush(Writer) : Written(r, "exit")
  /\ UNCHANGED <<flagvars, genvars, rcvd>>

main ==
  \/ OpenStdout \/ CreateOk \/ CreateFail \/ Start
  \/ BinWrite \/ BinRangeEnd
  \/ TextFirst \/ TextWrite \/ TextRangeEnd
  \/ FinalFlush

(***************************************************************************)
(* The program.                                                            *)
(***************************************************************************)

Init ==
  /\ bin \in BOOLEAN
  /\ nl \in BOOLEAN
  /\ buf \in 1..MaxBuf
  /\ o \in {"", "conip.out"}
  /\ pcm = "l94"
  /\ fatal = "nil"
  /\ pct = "idle"
  /\ u = [i \in 0..3 |-> 0]
  /\ ch = <<>>
  /\ closed = FALSE
  /\ w = [buf |-> <<>>, err |-> "nil"]
  /\ out = <<>>
  /\ sent = <<>>
  /\ rcvd = <<>>
  /\ logged = <<>>

Next == terms \/ main

Spec == Init /\ [][Next]_vars

\* The Go scheduler lets every goroutine that can run take its next step.
FairSpec == Spec /\ WF_vars(terms) /\ WF_vars(main)

(***************************************************************************)
(* The sink under an arbitrary producer: any byte may be sent on ch.  At   *)
(* most one term of a run is taken from outside FeedCommon.                *)
(***************************************************************************)

FeedCommon == {10}

FeedTerms ==
  IF \A i \in 1..Len(sent) : sent[i] \in FeedCommon THEN 0..255 ELSE FeedCommon

Feed ==
  /\ Running
  /\ pct = "l40"
  /\ Len(sent) < MaxFeed
  /\ \E v \in FeedTerms : Send(v)
  /\ UNCHANGED <<pct, u, closed, logged>>
  /\ UNCHANGED <<flagvars, pcm, fatal, w, out, rcvd>>

FeedClose ==
  /\ Running
  /\ pct = "l40"
  /\ Len(sent) >= 1
  /\ closed' = TRUE
  /\ pct' = "done"
  /\ UNCHANGED <<u, ch, sent, logged>>
  /\ UNCHANGED <<flagvars, pcm, fatal, w, out, rcvd>>

TextNext == Feed \/ FeedClose \/ main

TextSpec == Init /\ [][TextNext]_vars

(***************************************************************************)
(* The classification of a 4-symbol word in the comment of terms, applied  *)
(* to every word over the alphabet.  Here pct is the classifier's          *)
(* position: "classify" before it has run, then its verdict.               *)
(***************************************************************************)

\* The classification without its rule 2.
IsLyndon4NoRule2(x) ==
  IF x[0] > x[1] \/ x[0] > x[2] \/ x[0] > x[3] THEN FALSE
  ELSE IF x[0] = x[2] THEN x[1] < x[3]
  ELSE TRUE

\* lines 29-34: rules 1 to 4 for u = x[0] x[1] x[2] x[3]
IsLyndon4(x) ==
  IF x[0] > x[1] \/ x[0] > x[2] \/ x[0] > x[3] THEN FALSE
  ELSE IF x[0] = x[3] THEN FALSE
  ELSE IF x[0] = x[2] THEN x[1] < x[3]
  ELSE TRUE

ClassInit ==
  /\ bin = FALSE /\ nl = FALSE /\ buf = 1 /\ o = ""
  /\ pcm = "l94"
  /\ fatal = "nil"
  /\ pct = "classify"
  /\ u \in [0..3 -> 0..MaxSym]
  /\ ch = <<>>
  /\ closed = FALSE
  /\ w = [buf |-> <<>>, err |-> "nil"]
  /\ out = <<>>
  /\ sent = <<>>
  /\ rcvd = <<>>
  /\ logged = <<>>

Classify ==
  /\ pct = "classify"
  /\ pct' = IF IsLyndon4(u) THEN "lyndon" ELSE "not lyndon"
  /\ UNCHANGED <<flagvars, pcm, fatal, u, ch, closed, w, out, sent, rcvd, logged>>

ClassSpec == ClassInit /\ [][Classify]_vars

(***************************************************************************)
(* Vocabulary of the properties.                                           *)
(***************************************************************************)

\* k^4, the number of 4-symbol words.
NumWords == K * K * K * K

AllWords == {<<a, b, c, d>> : a \in 0..MaxSym, b \in 0..MaxSym, c \in 0..MaxSym, d \in 0..MaxSym}

Window(s, i) == <<s[i], s[i + 1], s[i + 2], s[i + 3]>>

WindowPositions(s) == 1..(Len(s) - 3)

\* The decimal digits of n, most significant first.
RECURSIVE Decimal(_)
Decimal(n) == IF n < 10 THEN <<48 + n>> ELSE Decimal(n \div 10) \o <<48 + (n % 10)>>

\* The separator of text mode.
Sep == IF nl THEN 10 ELSE 46

\* Text mode as the specification words it: the first term bare, every
\* later term after a separator.
RECURSIVE RenderText(_)
RenderText(s) ==
  IF s = <<>> THEN <<>>
  ELSE IF Len(s) = 1 THEN Decimal(s[1])
  ELSE LET h == Len(s) \div 2
       IN RenderText(SubSeq(s, 1, h)) \o <<Sep>> \o RenderText(SubSeq(s, h + 1, Len(s)))

\* What a complete run writes for the terms s.
Rendered(s) == IF bin THEN s ELSE RenderText(s)

\* The fields of s between separators.
RECURSIVE Fields(_, _)
Fields(s, sep) ==
  IF s = <<>> THEN << <<>> >>
  ELSE LET rest == Fields(Tail(s), sep)
       IN IF Head(s) = sep
          THEN << <<>> >> \o rest
          ELSE << <<Head(s)>> \o rest[1] >> \o Tail(rest)

RECURSIVE DigitsValue(_)
DigitsValue(f) ==
  IF f = <<>> THEN 0 ELSE 10 * DigitsValue(SubSeq(f, 1, Len(f) - 1)) + (f[Len(f)] - 48)

\* The decimal integer a field spells, -1 when it spells none.
ParseDec(f) ==
  IF f = <<>> \/ \E i \in 1..Len(f) : f[i] \notin 48..57 THEN -1 ELSE DigitsValue(f)

ParseText(s, sep) == LET fs == Fields(s, sep) IN [i \in 1..Len(fs) |-> ParseDec(fs[i])]

IsPrefix(s, t) == Len(s) <= Len(t) /\ s = SubSeq(t, 1, Len(s))

\* The rotation of x by r places, and the order of 4-symbol words.
Rotation(x, r) == [i \in 0..3 |-> x[(i + r) % 4]]

Less4(x, y) == \E i \in 0..3 : x[i] < y[i] /\ \A j \in 0..(i - 1) : x[j] = y[j]

\* A Lyndon word is strictly smaller than each of its nontrivial rotations.
SmallestRotation(x) == \A r \in 1..3 : Less4(x, Rotation(x, r))

\* The order of words of any lengths: a proper prefix comes first.
LexLess(s, t) ==
  \/ Len(s) < Len(t) /\ s = SubSeq(t, 1, Len(s))
  \/ \E i \in 1..Min(Len(s), Len(t)) : s[i] < t[i] /\ \A j \in 1..(i - 1) : s[j] = t[j]

\* The Lyndon words of length 1, 2 and 4, by the rotation-based definition.
LyndonWords ==
  {<<a>> : a \in 0..MaxSym}
  \cup {x \in (0..MaxSym) \X (0..MaxSym) : x[1] < x[2]}
  \cup {x \in AllWords : SmallestRotation([i \in 0..3 |-> x[i + 1]])}

\* The words of S in increasing order.
SortWords(S) ==
  [n \in 1..Cardinality(S) |->
     CHOOSE x \in S : Cardinality({y \in S : LexLess(y, x)}) = n - 1]

\* The Lyndon words of length 1, 2 and 4 in increasing order.
LyndonList == SortWords(LyndonWords)

\* The concatenation of the words of a list.
RECURSIVE Flatten(_)
Flatten(ws) ==
  IF ws = <<>> THEN <<>>
  ELSE IF Len(ws) = 1 THEN ws[1]
  ELSE LET h == Len(ws) \div 2
       IN Flatten(SubSeq(ws, 1, h)) \o Flatten(SubSeq(ws, h + 1, Len(ws)))

\* A word repeated to length 4, as the working word holds it.
Pad(x) == [i \in 0..3 |-> x[(i % Len(x)) + 1]]

HasIndex(x) == \E n \in 1..Len(LyndonList) : Pad(LyndonList[n]) = x

Index(x) == CHOOSE n \in 1..Len(LyndonList) : Pad(LyndonList[n]) = x

\* At a position inside a burst: the length of the burst, and how many of
\* its terms are sent.
BurstLen ==
  CASE pct = "l54" -> 1
    [] pct \in {"l60", "l61"} -> 2
    [] pct \in {"l70", "l71", "l72", "l73"} -> 4
    [] OTHER -> 0

BurstSent ==
  CASE pct \in {"l61", "l71"} -> 1
    [] pct = "l72" -> 2
    [] pct = "l73" -> 3
    [] OTHER -> 0

\* The kinds of working word.
IsRepeat(x) == x[0] = x[1] /\ x[1] = x[2] /\ x[2] = x[3]

IsTwoCycle(x) == x[0] = x[2] /\ x[1] = x[3] /\ x[0] < x[1]

\* A Lyndon word of length 3 followed by its first symbol.
IsThreePadding(x) ==
  /\ x[3] = x[0]
  /\ LET a == <<x[0], x[1], x[2]>>
     IN LexLess(a, <<x[1], x[2], x[0]>>) /\ LexLess(a, <<x[2], x[0], x[1]>>)

\* The whole stream: every Lyndon word of length 1, 2 and 4, then three 0s.
Reference == Flatten(LyndonList) \o <<0, 0, 0>>

\* The bytes one received term adds to the output.
Piece(term, first) ==
  IF bin THEN <<term>>
  ELSE IF first THEN Decimal(term)
  ELSE <<Sep>> \o Decimal(term)

\* n to the fourth power.
Pow4(n) == n * n * n * n

\* The number of terms sent before report i since the report before it, or
\* since the start for the first report.
Wait(i) == logged[i][2] - (IF i = 1 THEN 0 ELSE logged[i - 1][2])

\* The steps of terms that send, and the steps of main that receive.
SendStep ==
  \/ Send40 \/ Send54 \/ Send60 \/ Send61
  \/ Send70 \/ Send71 \/ Send72 \/ Send73
  \/ Send77 \/ Send78 \/ Send79

ReceiveStep == BinWrite \/ BinRangeEnd \/ TextFirst \/ TextWrite \/ TextRangeEnd

(***************************************************************************)
(* C1.  De Bruijn coverage: once terms has sent its whole stream (the      *)
(* initial 0, the loop body, the three trailing 0s), the 4-symbol windows  *)
(* of consecutive terms are pairwise distinct and are exactly the words of *)
(* [0,k-1]^4, each at one window position.                                 *)
(***************************************************************************)
C1_DeBruijnCoverage ==
  pct = "done" =>
    /\ {Window(sent, i) : i \in WindowPositions(sent)} = AllWords
    /\ \A i, j \in WindowPositions(sent) : Window(sent, i) = Window(sent, j) => i = j

C1_Witness ==
  /\ pct = "done"
  /\ Cardinality(WindowPositions(sent)) = NumWords
  /\ Window(sent, NumWords) = <<MaxSym, 0, 0, 0>>

(***************************************************************************)
(* C2.  Total term count.  As claimed: until it closes the channel, terms  *)
(* sends exactly k^4 terms, the initial term, the loop body and the three  *)
(* trailing terms included.                                                *)
(***************************************************************************)
C2_TotalIsNumWords == pct = "done" => Len(sent) = NumWords

\* C2 as amended: terms sends exactly k^4 + 3 terms before it closes the
\* channel: k^4 by the initial term and the loop body, then the three
\* trailing terms.
C2_TotalTerms ==
  /\ pct \in {"l77", "l78", "l79", "l80", "done"} =>
       Len(sent) = NumWords + (CASE pct = "l77" -> 0 [] pct = "l78" -> 1
                                 [] pct = "l79" -> 2 [] OTHER -> 3)
  /\ pct = "done" => Len(sent) = NumWords + 3
  /\ pct \notin {"l77", "l78", "l79", "l80", "done"} => Len(sent) <= NumWords

C2_Witness == closed /\ Len(sent) = NumWords + 3

(***************************************************************************)
(* C3.  Binary output layout: after a successful run in binary mode the    *)
(* output is one byte per term, in the order sent, with nothing before,    *)
(* between or after them, k^4 + 3 bytes in all.                            *)
(***************************************************************************)
C3_BinaryLayout ==
  (pcm = "exit" /\ bin) =>
    /\ Len(out) = NumWords + 3
    /\ out = sent

C3_Witness == pcm = "exit" /\ bin /\ Len(out) = NumWords + 3 /\ out[5] = 1

(***************************************************************************)
(* C4.  Text rendering round trip: after a successful run in text mode the *)
(* output is the first term's decimal digits, then for every later term    *)
(* the separator and its decimal digits; splitting the output on the       *)
(* separator and reading every field as a decimal integer gives back the   *)
(* terms, which are what binary mode writes.                               *)
(***************************************************************************)
C4_TextRoundTrip ==
  pcm = "exit" =>
    /\ ~bin => /\ out = RenderText(sent)
               /\ ParseText(out, Sep) = sent
    /\ bin => out = sent

C4_Witness ==
  /\ pcm = "exit" /\ ~bin /\ nl
  /\ Len(sent) = 2 /\ sent[1] >= 100 /\ sent[2] = 10
  /\ Len(out) = 6

(***************************************************************************)
(* C5.  Flush before successful exit: when main has returned, the channel  *)
(* is closed and drained, and every term sent has been written through the *)
(* writer to the destination, in order, with no byte left in the buffer;   *)
(* for every buffer size.                                                  *)
(***************************************************************************)
C5_FlushedAtExit ==
  pcm = "exit" =>
    /\ closed /\ ch = <<>> /\ pct = "done"
    /\ rcvd = sent
    /\ w.buf = <<>>
    /\ out = Rendered(sent)

C5_Witness == pcm = "exit" /\ ~bin /\ buf = MaxBuf /\ w.buf = <<>> /\ Len(out) > NumWords

(***************************************************************************)
(* C6.  A write failure is fatal: a step in which a write or the final     *)
(* flush fails ends in panic with that error; after a panic nothing is     *)
(* retried or written and main does not return; main returns only with no  *)
(* error and the complete sequence written.                                *)
(***************************************************************************)
C6_WriteFailureFatal ==
  [][/\ w'.err # "nil" => (pcm' = "panic" /\ fatal' = w'.err)
     /\ pcm = "panic" => (pcm' = "panic" /\ out' = out /\ w' = w /\ rcvd' = rcvd)
     /\ pcm' = "exit" => (w'.err = "nil" /\ fatal' = "nil" /\ pct' = "done"
                           /\ out' = Rendered(sent'))]_vars

C6_Witness == pcm = "panic" /\ fatal = "EIO" /\ w.err = "EIO" /\ out # <<>> /\ w.buf # <<>>

(***************************************************************************)
(* C7.  Failure to create the output file: main panics before the          *)
(* goroutine is started, so no term is generated, sent or written.         *)
(***************************************************************************)
C7_CreateFailure ==
  fatal = "ENOENT" =>
    /\ pcm = "panic"
    /\ pct = "idle"
    /\ sent = <<>> /\ ch = <<>> /\ rcvd = <<>> /\ out = <<>> /\ logged = <<>>

C7_Witness == pcm = "panic" /\ fatal = "ENOENT" /\ o # ""

(***************************************************************************)
(* C8.  FIFO delivery: the terms main has received are always a prefix of  *)
(* the terms sent, and the rest are the channel's contents in order:       *)
(* nothing is reordered, dropped or duplicated.                            *)
(***************************************************************************)
C8_FifoDelivery ==
  /\ IsPrefix(rcvd, sent)
  /\ sent = rcvd \o ch

C8_Witness == Len(ch) = ChanCap /\ Len(rcvd) > ChanCap /\ ch[1] # ch[2]

(***************************************************************************)
(* C9.  Bounded handoff: at most 4 terms are sent and not yet received;    *)
(* a send can happen only with fewer than 4 terms buffered, a receive only *)
(* with a term buffered or the channel closed.                             *)
(***************************************************************************)
C9_BoundedHandoff ==
  /\ Len(sent) - Len(rcvd) <= ChanCap
  /\ Len(ch) <= ChanCap
  /\ ENABLED SendStep => Len(ch) < ChanCap
  /\ ENABLED ReceiveStep => (ch # <<>> \/ closed)

C9_Witness == Len(sent) - Len(rcvd) = ChanCap /\ pct \in {"l71", "l72", "l73"} /\ ~ENABLED SendStep

(***************************************************************************)
(* C10.  Termination and end of stream: with both tasks scheduled fairly   *)
(* and no write failing, main eventually returns; the loop of terms is     *)
(* left exactly when the 1-element branch has made u[0] maximal; terms     *)
(* then sends three 0s and closes the channel; and no state of the running *)
(* program is a deadlock.                                                  *)
(***************************************************************************)
C10_Termination ==
  /\ ([](fatal = "nil")) => <>(pcm = "exit")
  /\ <>(pcm \in {"exit", "panic"})
  /\ [][/\ (pct = "l42" /\ u[0] = MaxSym) => pct' \in {"l42", "l77"}
        /\ u'[0] # u[0] => (pct = "l42" /\ pct' = "l54" /\ u'[0] = u[0] + 1)
        /\ pct' = "l77" => (u[0] = MaxSym /\ pct \in {"l42", "l77"})]_vars
  /\ [](pct = "done" => (closed /\ SubSeq(sent, Len(sent) - 2, Len(sent)) = <<0, 0, 0>>))
  /\ [](closed => pct = "done")
  /\ [](Running => ENABLED Next)

C10_Witness == pcm = "exit" /\ fatal = "nil" /\ pct = "done" /\ closed /\ u[0] = MaxSym
(***************************************************************************)
(* C11.  Prefix determinism: the first four terms sent, and so the first   *)
(* four terms main receives, are 0, 0, 0, 0.                               *)
(***************************************************************************)
C11_PrefixZeros ==
  /\ \A i \in 1..Min(4, Len(sent)) : sent[i] = 0
  /\ \A i \in 1..Min(4, Len(rcvd)) : rcvd[i] = 0
  /\ (pcm = "exit" /\ bin) => SubSeq(out, 1, 4) = <<0, 0, 0, 0>>

C11_Witness == Len(rcvd) = 5 /\ SubSeq(rcvd, 1, 4) = <<0, 0, 0, 0>> /\ rcvd[5] = 1

(***************************************************************************)
(* C12.  Suffix determinism: the last three terms sent before the close    *)
(* are 0, 0, 0, the term before them is the maximal symbol, and the three  *)
(* repeat the first three terms of the sequence.                           *)
(***************************************************************************)
C12_SuffixZeros ==
  pct = "done" =>
    LET n == Len(sent)
    IN /\ n >= 4
       /\ SubSeq(sent, n - 2, n) = <<0, 0, 0>>
       /\ sent[n - 3] = MaxSym
       /\ SubSeq(sent, n - 2, n) = SubSeq(sent, 1, 3)

C12_Witness ==
  /\ pct = "done" /\ pcm \in {"l106", "l120"} /\ Len(ch) = 4
  /\ ch = <<MaxSym, 0, 0, 0>>
(***************************************************************************)
(* C15.  Lyndon classification: for every 4-symbol word over the alphabet, *)
(* rules 1 to 4 call it a Lyndon word exactly when it is strictly smaller  *)
(* than each of its three nontrivial rotations.                            *)
(***************************************************************************)
C15_Classification ==
  pct \in {"lyndon", "not lyndon"} => (pct = "lyndon" <=> SmallestRotation(u))

C15_Witness == pct = "lyndon" /\ u[0] = u[2] /\ u[1] < u[3] /\ u[1] > u[0]
(***************************************************************************)
(* C13.  Lyndon-word enumeration with the length-3 skip: the initial term  *)
(* and the bursts of the loop iterations are the Lyndon words of length 1, *)
(* 2 and 4 in increasing order, each once and none of length 3: at every   *)
(* position of terms the terms sent are the words before the current one   *)
(* and the part of the current one already sent, and the whole stream is   *)
(* all the words and three 0s.  Every 4-term burst is a Lyndon word by the *)
(* classification.                                                         *)
(***************************************************************************)
C13_LyndonEnumeration ==
  /\ pct = "l42" =>
       /\ HasIndex(u)
       /\ sent = Flatten(SubSeq(LyndonList, 1, Index(u)))
  /\ BurstLen > 0 =>
       /\ HasIndex(u)
       /\ Len(LyndonList[Index(u)]) = BurstLen
       /\ sent = Flatten(SubSeq(LyndonList, 1, Index(u) - 1))
                   \o SubSeq(LyndonList[Index(u)], 1, BurstSent)
  /\ pct = "l70" => IsLyndon4(u)
  /\ pct = "done" => sent = Flatten(LyndonList) \o <<0, 0, 0>>

C13_Witness ==
  /\ pct = "l70" /\ u[2] = u[0] + 1 /\ u[3] = u[0] + 1 /\ u[1] = MaxSym
  /\ LyndonList[Index(u) - 1] = <<u[0], MaxSym>>

(***************************************************************************)
(* C14.  Working-word invariant: at the start of every loop iteration and  *)
(* after the loop, u is a repeated symbol, a 2-cycle a,b,a,b with a < b,   *)
(* or a 4-symbol Lyndon word by the classification; never a Lyndon word of *)
(* length 3 padded with its first symbol.                                  *)
(***************************************************************************)
C14_WorkingWord ==
  pct \in {"l42", "l77", "l78", "l79", "l80", "done"} =>
    /\ IsRepeat(u) \/ IsTwoCycle(u) \/ IsLyndon4(u)
    /\ ~IsThreePadding(u)

C14_Witness == pct = "l42" /\ IsLyndon4(u) /\ u[3] = MaxSym /\ u[2] # MaxSym /\ u[1] # u[0]
(***************************************************************************)
(* C16.  No overflow of the working word: every increment of a slot of u   *)
(* finds it strictly below the maximal symbol and adds exactly 1, so no    *)
(* slot wraps around; u[0] changes only in the 1-element branch.           *)
(***************************************************************************)
C16_NoOverflow ==
  [][/\ (pct = "l42" /\ pct' = "l54") => (u[0] < MaxSym /\ u'[0] = u[0] + 1)
     /\ (pct = "l42" /\ pct' = "l60") => (u[1] < MaxSym /\ u'[1] = u[1] + 1)
     /\ (pct = "l42" /\ pct' = "l69") => (u[2] < MaxSym /\ u'[2] = u[2] + 1)
     /\ (pct \in {"l42", "l69"} /\ pct' = "l70") => (u[3] < MaxSym /\ u'[3] = u[3] + 1)
     /\ u'[0] # u[0] => (pct = "l42" /\ pct' = "l54")
     /\ \A i \in 0..3 : u'[i] \in 0..MaxSym]_vars

C16_Witness == pct = "l70" /\ u[3] = MaxSym /\ u[2] = MaxSym /\ u[0] = MaxSym - 1 /\ u[1] = u[0]

(***************************************************************************)
(* C17.  Progress reports.  As claimed: there is one report for each       *)
(* change of u[0], and the number of terms sent between consecutive        *)
(* reports grows as u[0] increases.                                        *)
(***************************************************************************)
C17_IntervalsGrow ==
  /\ Len(logged) = u[0]
  /\ \A i \in 2..Len(logged) : Wait(i) > Wait(i - 1)

\* C17 as amended: there is one report for each change of u[0], naming the
\* value u[0] leaves, and the number of terms sent before a report since
\* the report before it (since the start, for the first) shrinks as u[0]
\* increases: it is (k-a)^4 - (k-a-1)^4 for the report of a.
C17_ProgressReports ==
  /\ Len(logged) = u[0]
  /\ \A i \in 1..Len(logged) :
       /\ logged[i][1] = i - 1
       /\ Wait(i) = Pow4(K - i + 1) - Pow4(K - i)
  /\ \A i \in 2..Len(logged) : Wait(i) < Wait(i - 1)

C17_Witness == Len(logged) = MaxSym /\ Wait(1) > Wait(MaxSym) /\ pct = "l54"

(***************************************************************************)
(* C18.  Close discipline: the channel is closed once, by terms at line    *)
(* 80 after its last send; nothing is sent on the closed channel; main     *)
(* leaves its loop only when it has received every term sent; the first    *)
(* receive of text mode obtains the first term sent.                       *)
(***************************************************************************)
C18_CloseDiscipline ==
  /\ [][/\ closed => (closed' /\ sent' = sent)
        /\ (closed' /\ ~closed) => (pct = "l80" /\ sent = Reference)
        /\ (pcm = "l117" /\ pcm' # "l117") =>
             (ch # <<>> /\ rcvd' = <<sent[1]>> /\ Head(ch) = sent[1])]_vars
  /\ [](closed => (pct = "done" /\ ~ENABLED SendStep))
  /\ [](pcm \in {"l127", "exit"} => (closed /\ ch = <<>> /\ rcvd = sent))

C18_Witness == closed /\ Len(ch) = 2 /\ pcm = "l120" /\ Len(rcvd) = NumWords + 1

(***************************************************************************)
(* C19.  Schedule independence: the terms sent are a prefix of one fixed   *)
(* stream whatever the flags and the interleaving; while no write fails,   *)
(* each received term adds to the output (written or buffered) bytes that  *)
(* depend only on the term, the mode and whether it is the first; and a    *)
(* run that returns has written the rendering of the fixed stream, which   *)
(* depends on the mode flags alone.                                        *)
(***************************************************************************)
C19_ScheduleIndependence ==
  /\ [](IsPrefix(sent, Reference))
  /\ [][(Len(rcvd') = Len(rcvd) + 1 /\ w'.err = "nil") =>
          out' \o w'.buf = (out \o w.buf) \o Piece(rcvd'[Len(rcvd')], rcvd = <<>>)]_vars
  /\ [][(rcvd' = rcvd /\ w'.err = "nil" /\ pcm # "l102") => out' \o w'.buf = out \o w.buf]_vars
  /\ [](pcm = "exit" => out = Rendered(Reference))

C19_Witness ==
  /\ pcm = "l120" /\ buf = 1 /\ Len(ch) = ChanCap /\ w.err = "nil"
  /\ Len(rcvd) = 6 /\ Len(out) + Len(w.buf) = 11 /\ w.buf # <<>>
====
